---- MODULE Spec2Model ----
(***************************************************************************)
(* Model of the s3lib package: Config.Validate, NewS3Client and the        *)
(* S3Client operations, run against an object store reached through the    *)
(* AWS SDK calls the operations make.                                      *)
(***************************************************************************)
EXTENDS Integers, Sequences, FiniteSets, TLC

VARIABLES handle, sessions, store, written, dl, last, closeCalls, panicked

vars == <<handle, sessions, store, written, dl, last, closeCalls, panicked>>

(***************************************************************************)
(* Bounds of the model.                                                    *)
(***************************************************************************)
MaxByte == 1       \* payload bytes range over 0..MaxByte
PageSize == 1      \* objects per page of the paginated listing
MaxClose == 2      \* Close calls counted

(***************************************************************************)
(* Inputs.                                                                 *)
(***************************************************************************)
Strs == {"", "x"}
Buckets == {"", "b1", "b2"}
ExistingBuckets == {"b1"}
\* object keys are sequences of characters; <<>> is the empty string
ObjKeys == {<<1>>, <<2, 1>>}
Keys == {<<>>} \cup ObjKeys
Prefixes == {<<>>, <<2>>}
\* the keys in the order the service lists them (UTF-8 binary order)
KeyOrder == << <<1>>, <<2, 1>> >>
Payloads == {<<>>} \cup {<<i>> : i \in 0..MaxByte}

Configs == [Region : Strs, AccessKey : Strs, SecretKey : Strs,
            Endpoint : Strs, Debug : BOOLEAN]

(***************************************************************************)
(* Errors.  An error value is its own message prefix and the error at the  *)
(* end of its %w chain; prefix "" is the chain's last error itself.        *)
(***************************************************************************)
NoError == [prefix |-> "", cause |-> "nil"]
ErrInvalidConfig == [prefix |-> "", cause |-> "ErrInvalidConfig"]
ErrInvalidBucket == [prefix |-> "", cause |-> "ErrInvalidBucket"]
ErrInvalidKey == [prefix |-> "", cause |-> "ErrInvalidKey"]
ErrFileNotFound == [prefix |-> "", cause |-> "ErrFileNotFound"]
Sentinels == {ErrInvalidConfig, ErrInvalidBucket, ErrInvalidKey, ErrFileNotFound}

\* fmt.Errorf(prefix + ": %w", e)
Errorf(prefix, e) == [prefix |-> prefix, cause |-> e.cause]
\* errors.Is(e, target)
ErrorsIs(e, target) == e.cause = target.cause

\* what an SDK call reports: "ok", a structured awserr code, or "Plain",
\* an error that is no awserr.Error
SdkError(code) == [prefix |-> "", cause |-> code]
IsAwsErr(code) == code \in {"NotFound", "NoSuchBucket", "NoSuchKey", "Other"}

(***************************************************************************)
(* Config.Validate                                                         *)
(***************************************************************************)
ValidateSkipsSecretKey(cfg) ==
    IF cfg.Region = "" THEN ErrInvalidConfig
    ELSE IF cfg.AccessKey = "" THEN ErrInvalidConfig
    ELSE NoError

Validate(cfg) ==
    IF cfg.Region = "" THEN ErrInvalidConfig
    ELSE IF cfg.AccessKey = "" THEN ErrInvalidConfig
    ELSE IF cfg.SecretKey = "" THEN ErrInvalidConfig
    ELSE NoError

(***************************************************************************)
(* The client handle: a *S3Client is unset (not constructed yet), nil, or  *)
(* points to a struct whose reference fields are nil (FALSE) or not.       *)
(***************************************************************************)
UnsetHandle == [state |-> "unset", s3Client |-> FALSE, session |-> FALSE,
                uploader |-> FALSE]
NilHandle == [UnsetHandle EXCEPT !.state = "nil"]
NewHandle == [state |-> "ptr", s3Client |-> TRUE, session |-> TRUE,
              uploader |-> TRUE]

\* the aws.Config NewS3Client builds for the session
NoAwsConfig == [Endpoint |-> "", S3ForcePathStyle |-> FALSE]
AwsConfig(cfg) == [Endpoint |-> cfg.Endpoint,
                   S3ForcePathStyle |-> (cfg.Endpoint # "")]

(***************************************************************************)
(* The record of the last call that returned (or panicked).                *)
(***************************************************************************)
NoObject == [present |-> FALSE, body |-> <<>>]
Object(data) == [present |-> TRUE, body |-> data]
NoLocation == [bucket |-> "", key |-> <<>>]
NoInfo == [Key |-> <<>>, Size |-> 0]
NoInput == [ContentType |-> "unset", ContentDisposition |-> "unset",
            CacheControl |-> "unset", Metadata |-> "unset",
            StorageClass |-> "unset", ACL |-> "unset"]

\* a nil *UploadOptions
NilOptions == [isNil |-> TRUE, ContentType |-> "", ContentDisposition |-> "",
               CacheControl |-> "", Metadata |-> "nil", StorageClass |-> "",
               ACL |-> ""]
NoURL == [bucket |-> "", key |-> <<>>, mode |-> "", expires |-> 0]
NoConfig == [Region |-> "", AccessKey |-> "", SecretKey |-> "",
             Endpoint |-> "", Debug |-> FALSE]

\* reqs: the SDK requests the call issued, in order; probe: what DownloadFile's
\* HeadObject reported; sdk: what the call's last SDK request reported;
\* zero: the result is the zero value (nil slice, nil pointer, "");
\* opts, input: the options UploadFile was given and the attributes of the
\* upload request it built
Call(op, bucket, key) ==
    [op |-> op, bucket |-> bucket, key |-> key, err |-> NoError,
     panic |-> FALSE, zero |-> TRUE, body |-> <<>>, files |-> <<>>,
     info |-> NoInfo, location |-> NoLocation, opts |-> NilOptions,
     input |-> NoInput,
     cfg |-> NoConfig, awsCfg |-> NoAwsConfig, url |-> NoURL, fields |-> {},
     reqs |-> <<>>, probe |-> "none", sdk |-> "none"]

NoCall == Call("none", "", <<>>)

Init ==
    /\ handle = UnsetHandle
    /\ sessions = 0
    /\ store = [k \in ObjKeys |-> NoObject]
    /\ written = [k \in ObjKeys |-> [kind |-> "none", body |-> <<>>]]
    /\ dl = [pc |-> "idle", bucket |-> "", key |-> <<>>]
    /\ last = NoCall
    /\ closeCalls = 0
    /\ panicked = FALSE

(***************************************************************************)
(* NewS3Client                                                             *)
(***************************************************************************)
NewS3Client(cfg, sessOK) ==
    /\ handle.state = "unset"
    /\ ~panicked
    /\ LET err == Validate(cfg)
           call == [Call("NewS3Client", "", <<>>) EXCEPT !.cfg = cfg] IN
       IF err # NoError
       THEN /\ handle' = NilHandle
            /\ last' = [call EXCEPT !.err = Errorf("invalid config", err)]
            /\ UNCHANGED sessions
       ELSE IF ~sessOK
       THEN /\ handle' = NilHandle
            /\ last' = [call EXCEPT
                          !.err = Errorf("failed to create session",
                                         SdkError("Plain")),
                          !.awsCfg = AwsConfig(cfg),
                          !.reqs = <<"NewSession">>]
            /\ UNCHANGED sessions
       ELSE /\ handle' = NewHandle
            /\ sessions' = sessions + 1
            /\ last' = [call EXCEPT
                          !.zero = FALSE, !.awsCfg = AwsConfig(cfg),
                          !.reqs = <<"NewSession">>]
    /\ UNCHANGED <<store, written, dl, closeCalls, panicked>>

(***************************************************************************)
(* Close                                                                   *)
(***************************************************************************)
ClosedKeepsUploader(h) ==
    [h EXCEPT !.session = IF h.session THEN FALSE ELSE h.session,
              !.s3Client = IF h.s3Client THEN FALSE ELSE h.s3Client]

Closed(h) ==
    [h EXCEPT !.session = IF h.session THEN FALSE ELSE h.session,
              !.s3Client = IF h.s3Client THEN FALSE ELSE h.s3Client,
              !.uploader = IF h.uploader THEN FALSE ELSE h.uploader]

Close ==
    /\ handle.state # "unset"
    /\ ~panicked
    /\ closeCalls < MaxClose
    /\ handle' = IF handle.state = "nil" THEN handle ELSE Closed(handle)
    /\ last' = Call("Close", "", <<>>)
    /\ closeCalls' = closeCalls + 1
    /\ UNCHANGED <<sessions, store, written, dl, panicked>>

(***************************************************************************)
(* The object store behind the SDK calls.  A request reports what the      *)
(* store holds, unless it fails with a code the library does not recognise *)
(* ("Other") or with an error that is no awserr.Error ("Plain").  The      *)
(* actions draw such failures for requests to an existing bucket only: a   *)
(* failed request to a missing bucket differs in the bucket name alone.    *)
(***************************************************************************)
Failures == {"Other", "Plain"}
Outcomes == {"ok"} \cup Failures

HeadObject(b, k, fail) ==
    IF fail # "ok" THEN fail
    ELSE IF b \notin ExistingBuckets THEN "NoSuchBucket"
    ELSE IF ~store[k].present THEN "NotFound"
    ELSE "ok"

GetObject(b, k, fail) ==
    IF fail # "ok" THEN fail
    ELSE IF b \notin ExistingBuckets THEN "NoSuchBucket"
    ELSE IF ~store[k].present THEN "NoSuchKey"
    ELSE "ok"

PutObject(b, fail) ==
    IF fail # "ok" THEN fail
    ELSE IF b \notin ExistingBuckets THEN "NoSuchBucket"
    ELSE "ok"

\* deleting a key the bucket does not hold succeeds
DeleteObject(b, fail) ==
    IF fail # "ok" THEN fail
    ELSE IF b \notin ExistingBuckets THEN "NoSuchBucket"
    ELSE "ok"

HasPrefix(k, p) == Len(p) <= Len(k) /\ SubSeq(k, 1, Len(p)) = p

ObjectSummary(k) == [Key |-> k, Size |-> Len(store[k].body)]

\* the objects ListObjectsV2 yields for an input, in listing order
Listing(input) ==
    LET match(k) == /\ store[k].present
                    /\ (input.hasPrefix => HasPrefix(k, input.Prefix))
        keys == SelectSeq(KeyOrder, match)
    IN [i \in 1..Len(keys) |-> ObjectSummary(keys[i])]

\* the pages of a listing: at least one, the last one possibly empty
RECURSIVE PagesOf(_)
PagesOf(objs) ==
    IF Len(objs) <= PageSize THEN <<objs>>
    ELSE <<SubSeq(objs, 1, PageSize)>>
         \o PagesOf(SubSeq(objs, PageSize + 1, Len(objs)))

\* does the handle hold a non-nil reference in field f
Holds(f) == handle.state = "ptr" /\ handle[f]

\* a nil dereference inside an operation: the calling goroutine panics
Panic(call) ==
    /\ last' = [call EXCEPT !.panic = TRUE]
    /\ panicked' = TRUE
    /\ UNCHANGED <<handle, sessions, store, written, dl, closeCalls>>

Return(call) ==
    /\ last' = call
    /\ UNCHANGED <<handle, sessions, store, written, dl, closeCalls, panicked>>

(***************************************************************************)
(* ListFiles                                                               *)
(***************************************************************************)
ListArgs(bucket) == IF bucket = "" THEN ErrInvalidBucket ELSE NoError

ListInput(bucket, prefix) ==
    [Bucket |-> bucket, hasPrefix |-> (prefix # <<>>), Prefix |-> prefix]

\* the page callback: append every object of the page, ask for the next page
RECURSIVE AppendPage(_, _, _)
AppendPage(files, page, i) ==
    IF i > Len(page) THEN files
    ELSE AppendPage(Append(files, [Key |-> page[i].Key, Size |-> page[i].Size]),
                    page, i + 1)

\* a callback that returns false after the first page
EachPageStopsEarly(files, pages, p, n) ==
    IF n = 0 THEN files ELSE AppendPage(files, pages[1], 1)

RECURSIVE EachPage(_, _, _, _)
EachPage(files, pages, p, n) ==
    IF p > n THEN files
    ELSE EachPage(AppendPage(files, pages[p], 1), pages, p + 1, n)

ListErrSwallowsPlain(code) ==
    IF IsAwsErr(code)
    THEN IF code = "NoSuchBucket" THEN ErrInvalidBucket
         ELSE Errorf("AWS error", SdkError(code))
    ELSE NoError

ListErr(code) ==
    IF IsAwsErr(code)
    THEN IF code = "NoSuchBucket" THEN ErrInvalidBucket
         ELSE Errorf("AWS error", SdkError(code))
    ELSE Errorf("failed to list objects", SdkError(code))

\* fail = "ok", or the code the request for page failPage fails with
ListFiles(bucket, prefix, fail, failPage) ==
    /\ ~panicked
    /\ handle.state # "unset"
    /\ fail # "ok" => bucket \in ExistingBuckets
    /\ fail = "ok" => failPage = 1
    /\ LET call == Call("ListFiles", bucket, prefix) IN
       IF ListArgs(bucket) # NoError
       THEN Return([call EXCEPT !.err = ListArgs(bucket)])
       ELSE IF ~Holds("s3Client") THEN fail = "ok" /\ Panic(call)
       ELSE LET input == ListInput(bucket, prefix)
                pages == IF input.Bucket \in ExistingBuckets
                         THEN PagesOf(Listing(input)) ELSE <<>>
                code == IF fail # "ok" THEN fail
                        ELSE IF input.Bucket \notin ExistingBuckets
                        THEN "NoSuchBucket" ELSE "ok"
                seen == IF code = "ok" THEN Len(pages) ELSE failPage - 1
                files == EachPage(<<>>, pages, 1, seen)
                nreq == IF code = "ok" THEN seen ELSE seen + 1
                sent == [call EXCEPT !.sdk = code,
                           !.reqs = [i \in 1..nreq |-> "ListObjectsV2"]]
            IN /\ failPage <= IF pages = <<>> THEN 1 ELSE Len(pages)
               /\ IF code # "ok"
                  THEN Return([sent EXCEPT !.err = ListErr(code)])
                  ELSE Return([sent EXCEPT !.files = files,
                                 !.zero = (files = <<>>)])

(***************************************************************************)
(* UploadFile                                                              *)
(***************************************************************************)
MetaVals == {"nil", "empty", "one"}
EmptyOptions == [NilOptions EXCEPT !.isNil = FALSE]
\* nil, nothing populated, two complementary halves, everything populated
Options ==
    {NilOptions, EmptyOptions,
     [EmptyOptions EXCEPT !.ContentType = "x", !.CacheControl = "x",
                          !.Metadata = "empty", !.ACL = "x"],
     [EmptyOptions EXCEPT !.ContentDisposition = "x", !.Metadata = "one",
                          !.StorageClass = "x"],
     [isNil |-> FALSE, ContentType |-> "x", ContentDisposition |-> "x",
      CacheControl |-> "x", Metadata |-> "one", StorageClass |-> "x",
      ACL |-> "x"]}

UploadArgsKeyFirst(bucket, filename) ==
    IF filename = <<>> THEN ErrInvalidKey
    ELSE IF bucket = "" THEN ErrInvalidBucket
    ELSE NoError

UploadArgs(bucket, filename) ==
    IF bucket = "" THEN ErrInvalidBucket
    ELSE IF filename = <<>> THEN ErrInvalidKey
    ELSE NoError

\* aws.String(v) when the option is populated, else the field stays nil
StrField(opts, v) == IF ~opts.isNil /\ v # "" THEN v ELSE "unset"

UploadInputNoBody(bucket, filename, data, opts) ==
    [Bucket |-> bucket, Key |-> filename, Body |-> <<>>, attrs |-> NoInput]

UploadInput(bucket, filename, data, opts) ==
    [Bucket |-> bucket, Key |-> filename, Body |-> data,
     attrs |->
       [ContentType |-> StrField(opts, opts.ContentType),
        ContentDisposition |-> StrField(opts, opts.ContentDisposition),
        CacheControl |-> StrField(opts, opts.CacheControl),
        Metadata |-> IF ~opts.isNil /\ opts.Metadata # "nil"
                     THEN opts.Metadata ELSE "unset",
        StorageClass |-> StrField(opts, opts.StorageClass),
        ACL |-> StrField(opts, opts.ACL)]]

UploadErr(code) ==
    IF IsAwsErr(code)
    THEN IF code = "NoSuchBucket" THEN ErrInvalidBucket
         ELSE Errorf("AWS error", SdkError(code))
    ELSE Errorf("failed to upload file", SdkError(code))

UploadFile(bucket, filename, data, opts, fail) ==
    /\ ~panicked
    /\ handle.state # "unset"
    /\ fail # "ok" => bucket \in ExistingBuckets /\ filename # <<>>
    /\ LET call == Call("UploadFile", bucket, filename) IN
       IF UploadArgs(bucket, filename) # NoError
       THEN Return([call EXCEPT !.err = UploadArgs(bucket, filename)])
       ELSE LET input == UploadInput(bucket, filename, data, opts)
                code == PutObject(input.Bucket, fail)
                built == [call EXCEPT !.opts = opts, !.input = input.attrs]
                sent == [built EXCEPT !.sdk = code, !.reqs = <<"Upload">>]
            IN IF ~Holds("uploader")
               THEN fail = "ok" /\ Panic(built)
               ELSE IF code # "ok"
               THEN Return([sent EXCEPT !.err = UploadErr(code)])
               ELSE /\ store' = [store EXCEPT ![input.Key] = Object(input.Body)]
                    /\ written' = [written EXCEPT ![filename] =
                                     [kind |-> "upload", body |-> data]]
                    /\ last' = [sent EXCEPT !.zero = FALSE,
                                  !.location = [bucket |-> input.Bucket,
                                                key |-> input.Key]]
                    /\ UNCHANGED <<handle, sessions, dl, closeCalls, panicked>>

(***************************************************************************)
(* DownloadFile, in two steps: the probe, then the transfer.  Calls of     *)
(* other goroutines on the same handle may run between the two.            *)
(***************************************************************************)
DownloadArgs(bucket, key) ==
    IF bucket = "" THEN ErrInvalidBucket
    ELSE IF key = <<>> THEN ErrInvalidKey
    ELSE NoError

ProbeErrNotFoundAsBucket(code) ==
    IF IsAwsErr(code)
    THEN IF code \in {"NotFound", "NoSuchBucket"} THEN ErrInvalidBucket
         ELSE Errorf("AWS error", SdkError(code))
    ELSE Errorf("failed to get object info", SdkError(code))

ProbeErr(code) ==
    IF IsAwsErr(code)
    THEN IF code = "NotFound" THEN ErrFileNotFound
         ELSE IF code = "NoSuchBucket" THEN ErrInvalidBucket
         ELSE Errorf("AWS error", SdkError(code))
    ELSE Errorf("failed to get object info", SdkError(code))

TransferErr(code) == Errorf("failed to download file", SdkError(code))

DownloadProbe(bucket, key, fail) ==
    /\ ~panicked
    /\ handle.state # "unset"
    /\ dl.pc = "idle"
    /\ fail # "ok" => bucket \in ExistingBuckets /\ key # <<>>
    /\ LET call == Call("DownloadFile", bucket, key) IN
       IF DownloadArgs(bucket, key) # NoError
       THEN Return([call EXCEPT !.err = DownloadArgs(bucket, key)])
       ELSE IF ~Holds("s3Client") THEN fail = "ok" /\ Panic(call)
       ELSE LET code == HeadObject(bucket, key, fail)
            IN IF code # "ok"
               THEN Return([call EXCEPT !.err = ProbeErr(code), !.sdk = code,
                              !.probe = code, !.reqs = <<"HeadObject">>])
               ELSE /\ dl' = [pc |-> "probed", bucket |-> bucket, key |-> key]
                    /\ UNCHANGED <<handle, sessions, store, written, last,
                                   closeCalls, panicked>>

DownloadTransfer(fail) ==
    /\ ~panicked
    /\ dl.pc = "probed"
    /\ LET call == [Call("DownloadFile", dl.bucket, dl.key) EXCEPT
                      !.probe = "ok", !.sdk = "ok", !.reqs = <<"HeadObject">>]
           code == GetObject(dl.bucket, dl.key, fail)
           sent == [call EXCEPT !.sdk = code,
                      !.reqs = <<"HeadObject", "GetObject">>]
       IN /\ dl' = [pc |-> "idle", bucket |-> "", key |-> <<>>]
          /\ IF ~Holds("session")
             THEN /\ fail = "ok"
                  /\ last' = [call EXCEPT !.panic = TRUE]
                  /\ panicked' = TRUE
             ELSE /\ panicked' = panicked
                  /\ IF code # "ok"
                     THEN last' = [sent EXCEPT !.err = TransferErr(code)]
                     ELSE last' = [sent EXCEPT !.zero = FALSE,
                                     !.body = store[dl.key].body]
          /\ UNCHANGED <<handle, sessions, store, written, closeCalls>>

(***************************************************************************)
(* DeleteFile                                                              *)
(***************************************************************************)
DeleteArgs(bucket, key) ==
    IF bucket = "" THEN ErrInvalidBucket
    ELSE IF key = <<>> THEN ErrInvalidKey
    ELSE NoError

DeleteErr(code) ==
    IF IsAwsErr(code)
    THEN IF code = "NoSuchBucket" THEN ErrInvalidBucket
         ELSE Errorf("AWS error", SdkError(code))
    ELSE Errorf("failed to delete file", SdkError(code))

DeleteFile(bucket, key, fail) ==
    /\ ~panicked
    /\ handle.state # "unset"
    /\ fail # "ok" => bucket \in ExistingBuckets /\ key # <<>>
    /\ LET call == Call("DeleteFile", bucket, key) IN
       IF DeleteArgs(bucket, key) # NoError
       THEN Return([call EXCEPT !.err = DeleteArgs(bucket, key)])
       ELSE IF ~Holds("s3Client") THEN fail = "ok" /\ Panic(call)
       ELSE LET code == DeleteObject(bucket, fail)
                sent == [call EXCEPT !.sdk = code, !.reqs = <<"DeleteObject">>]
            IN IF code # "ok"
               THEN Return([sent EXCEPT !.err = DeleteErr(code)])
               ELSE /\ store' = [store EXCEPT ![key] = NoObject]
                    /\ written' = [written EXCEPT ![key] =
                                     [kind |-> "delete", body |-> <<>>]]
                    /\ last' = [sent EXCEPT !.zero = FALSE]
                    /\ UNCHANGED <<handle, sessions, dl, closeCalls, panicked>>

(***************************************************************************)
(* GetFileInfo                                                             *)
(***************************************************************************)
InfoArgsKeyAsBucket(bucket, key) ==
    IF bucket = "" THEN ErrInvalidBucket
    ELSE IF key = <<>> THEN ErrInvalidBucket
    ELSE NoError

InfoArgs(bucket, key) ==
    IF bucket = "" THEN ErrInvalidBucket
    ELSE IF key = <<>> THEN ErrInvalidKey
    ELSE NoError

InfoErrNotFoundWrapped(code) ==
    IF IsAwsErr(code)
    THEN IF code = "NoSuchBucket" THEN ErrInvalidBucket
         ELSE Errorf("AWS error", SdkError(code))
    ELSE Errorf("failed to get file info", SdkError(code))

InfoErr(code) ==
    IF IsAwsErr(code)
    THEN IF code = "NotFound" THEN ErrFileNotFound
         ELSE IF code = "NoSuchBucket" THEN ErrInvalidBucket
         ELSE Errorf("AWS error", SdkError(code))
    ELSE Errorf("failed to get file info", SdkError(code))

GetFileInfo(bucket, key, fail) ==
    /\ ~panicked
    /\ handle.state # "unset"
    /\ fail # "ok" => bucket \in ExistingBuckets /\ key # <<>>
    /\ LET call == Call("GetFileInfo", bucket, key) IN
       IF InfoArgs(bucket, key) # NoError
       THEN Return([call EXCEPT !.err = InfoArgs(bucket, key)])
       ELSE IF ~Holds("s3Client") THEN fail = "ok" /\ Panic(call)
       ELSE LET code == HeadObject(bucket, key, fail)
                sent == [call EXCEPT !.sdk = code, !.reqs = <<"HeadObject">>]
            IN IF code # "ok"
               THEN Return([sent EXCEPT !.err = InfoErr(code)])
               ELSE Return([sent EXCEPT !.zero = FALSE,
                              !.info = [Key |-> key,
                                        Size |-> Len(store[key].body)]])

(***************************************************************************)
(* Pre-signed URL and pre-signed POST generation: local signing through    *)
(* the SDK client the handle holds; nothing is sent to the service.        *)
(***************************************************************************)
Durations == {1, 2}
PresignModes == {"upload", "download"}
MaxSizes == {1, 2}

PresignedURLContactsService(bucket, key, duration, mode) ==
    [Call("GeneratePresignedURL", bucket, key) EXCEPT
       !.zero = FALSE, !.reqs = <<"HeadObject">>,
       !.url = [bucket |-> bucket, key |-> key, mode |-> mode,
                expires |-> duration]]

PresignedURL(bucket, key, duration, mode) ==
    [Call("GeneratePresignedURL", bucket, key) EXCEPT
       !.zero = FALSE,
       !.url = [bucket |-> bucket, key |-> key, mode |-> mode,
                expires |-> duration]]

PresignedPost(bucket, key, duration, maxSize) ==
    [Call("GeneratePresignedPost", bucket, key) EXCEPT
       !.zero = FALSE,
       !.url = [bucket |-> bucket, key |-> <<>>, mode |-> "post",
                expires |-> duration],
       !.fields = {<<"key", key>>, <<"content-length-range", <<0, maxSize>>>>,
                   <<"expires", duration>>}]

GeneratePresignedURL(bucket, key, duration, mode) ==
    /\ ~panicked
    /\ Holds("s3Client")
    /\ Return(PresignedURL(bucket, key, duration, mode))

GeneratePresignedPost(bucket, key, duration, maxSize) ==
    /\ ~panicked
    /\ Holds("s3Client")
    /\ Return(PresignedPost(bucket, key, duration, maxSize))

Next ==
    \/ \E cfg \in Configs, sessOK \in BOOLEAN : NewS3Client(cfg, sessOK)
    \/ \E b \in Buckets, p \in Prefixes, f \in Outcomes,
          n \in 1..Cardinality(ObjKeys) : ListFiles(b, p, f, n)
    \/ \E b \in Buckets, k \in Keys, d \in Payloads, o \in Options,
          f \in Outcomes : UploadFile(b, k, d, o, f)
    \/ \E b \in Buckets, k \in Keys, f \in Outcomes : DownloadProbe(b, k, f)
    \/ \E f \in Outcomes : DownloadTransfer(f)
    \/ \E b \in Buckets, k \in Keys, f \in Outcomes : DeleteFile(b, k, f)
    \/ \E b \in Buckets, k \in Keys, f \in Outcomes : GetFileInfo(b, k, f)
    \/ \E b \in Buckets \ {""}, k \in ObjKeys, d \in Durations,
          m \in PresignModes : GeneratePresignedURL(b, k, d, m)
    \/ \E b \in Buckets \ {""}, k \in ObjKeys, d \in Durations,
          m \in MaxSizes : GeneratePresignedPost(b, k, d, m)
    \/ Close

Spec == Init /\ [][Next]_vars

(***************************************************************************)
(* Properties.                                                             *)
(***************************************************************************)
BucketOps == {"ListFiles", "UploadFile", "DownloadFile", "DeleteFile",
              "GetFileInfo"}
KeyOps == {"UploadFile", "DownloadFile", "DeleteFile", "GetFileInfo"}

\* the last write to (b, k) through the library was a successful upload
Uploaded(b, k) ==
    b \in ExistingBuckets /\ k \in ObjKeys /\ written[k].kind = "upload"
\* the last write to (b, k) through the library was a successful delete
Deleted(b, k) ==
    b \in ExistingBuckets /\ k \in ObjKeys /\ written[k].kind = "delete"

\* C1: a configuration whose region, access key or secret key is empty makes
\* NewS3Client return an error that is ErrInvalidConfig (errors.Is) and a nil
\* client, without creating an SDK session; with all three non-empty the
\* validation passes, so no ErrInvalidConfig is returned.
C1_ConfigValidated ==
    last.op = "NewS3Client" =>
      IF \/ last.cfg.Region = ""
         \/ last.cfg.AccessKey = ""
         \/ last.cfg.SecretKey = ""
      THEN /\ ErrorsIs(last.err, ErrInvalidConfig)
           /\ last.zero
           /\ handle = NilHandle
           /\ sessions = 0
           /\ last.reqs = <<>>
      ELSE ~ErrorsIs(last.err, ErrInvalidConfig)

C1_Witness ==
    /\ last.op = "NewS3Client"
    /\ last.cfg.Region # "" /\ last.cfg.AccessKey # ""
    /\ last.cfg.SecretKey = ""
    /\ ErrorsIs(last.err, ErrInvalidConfig)
    /\ handle = NilHandle

\* C2: every operation taking a bucket, called with the empty bucket and any
\* other arguments (an empty key included), returns ErrInvalidBucket with the
\* zero result and issues no SDK request.
C2_EmptyBucket ==
    (last.op \in BucketOps /\ last.bucket = "") =>
      /\ last.err = ErrInvalidBucket
      /\ last.reqs = <<>>
      /\ last.zero
      /\ ~last.panic

C2_Witness ==
    /\ last.op = "UploadFile"
    /\ last.bucket = "" /\ last.key = <<>>
    /\ last.err = ErrInvalidBucket
    /\ last.reqs = <<>>

\* C3 as stated: every operation taking a key, called with the empty key,
\* returns ErrInvalidKey and issues no SDK request.
C3_EmptyKey ==
    (last.op \in KeyOps /\ last.key = <<>>) =>
      /\ last.err = ErrInvalidKey
      /\ last.reqs = <<>>

\* C3 as amended: every operation taking a key, called with a non-empty
\* bucket and the empty key, returns ErrInvalidKey and issues no SDK request
\* (with the empty bucket the bucket check comes first: ErrInvalidBucket).
C3_EmptyKeyNonEmptyBucket ==
    (last.op \in KeyOps /\ last.key = <<>>) =>
      /\ last.reqs = <<>>
      /\ last.zero
      /\ ~last.panic
      /\ last.err = IF last.bucket = "" THEN ErrInvalidBucket
                    ELSE ErrInvalidKey

C3_Witness ==
    /\ last.op = "GetFileInfo"
    /\ last.bucket # "" /\ last.key = <<>>
    /\ last.err = ErrInvalidKey
    /\ last.reqs = <<>>

\* C4 as stated: a DownloadFile of (bucket, key) whose last write was a
\* successful UploadFile of payload P succeeds and returns exactly P.
C4_RoundTrip ==
    (last.op = "DownloadFile" /\ Uploaded(last.bucket, last.key)) =>
      /\ ~last.panic
      /\ last.err = NoError
      /\ last.body = written[last.key].body

\* C4 as amended: a DownloadFile of (bucket, key) whose last write was a
\* successful UploadFile of payload P returns exactly P and a nil error
\* whenever its probe and its transfer both complete without an SDK failure;
\* otherwise it returns no payload: a non-nil error, or none at all when the
\* call panics on a handle whose references Close dropped.
C4_RoundTripUnlessSdkFails ==
    (last.op = "DownloadFile" /\ Uploaded(last.bucket, last.key)) =>
      IF last.reqs = <<"HeadObject", "GetObject">> /\ last.sdk = "ok"
      THEN /\ last.err = NoError
           /\ ~last.panic
           /\ last.body = written[last.key].body
      ELSE /\ last.zero
           /\ last.body = <<>>
           /\ \/ last.panic
              \/ last.err # NoError /\ last.sdk \in Failures

C4_Witness ==
    /\ last.op = "DownloadFile"
    /\ Uploaded(last.bucket, last.key)
    /\ written[last.key].body # <<>>
    /\ last.err = NoError
    /\ last.body = written[last.key].body

\* C5 as stated: a GetFileInfo of (bucket, key) whose last write was a
\* successful DeleteFile returns ErrFileNotFound.
C5_DeletedIsNotFound ==
    (last.op = "GetFileInfo" /\ Deleted(last.bucket, last.key)) =>
      last.err = ErrFileNotFound

\* C5 as amended: a GetFileInfo of (bucket, key) whose last write was a
\* successful DeleteFile never succeeds; it returns ErrFileNotFound exactly
\* when its metadata request is answered not-found, and the request is
\* answered not-found unless it fails for another reason (then the error
\* wraps that failure) or the call panics on a closed handle.
C5_DeletedNeverFound ==
    (last.op = "GetFileInfo" /\ Deleted(last.bucket, last.key)) =>
      /\ last.zero
      /\ last.info = NoInfo
      /\ \/ last.panic /\ last.reqs = <<>>
         \/ /\ last.sdk = "NotFound"
            /\ last.err = ErrFileNotFound
         \/ /\ last.sdk \in Failures
            /\ last.err.prefix # ""
            /\ last.err.cause = last.sdk

C5_Witness ==
    /\ last.op = "GetFileInfo"
    /\ Deleted(last.bucket, last.key)
    /\ last.sdk = "NotFound"
    /\ last.err = ErrFileNotFound

\* C6: Close never panics and always returns nil, on a constructed handle
\* and on the nil handle of a failed construction, however often it is
\* called; once it has been called on a constructed handle the session,
\* client and uploader references are nil and stay nil.
C6_CloseIdempotent ==
    /\ last.op = "Close" => last.err = NoError /\ ~last.panic
    /\ (closeCalls >= 1 /\ handle.state = "ptr") =>
         ~handle.session /\ ~handle.s3Client /\ ~handle.uploader
    /\ (closeCalls >= 1 /\ handle.state # "ptr") => handle = NilHandle

C6_Witness ==
    /\ closeCalls >= 2
    /\ last.op = "Close"
    /\ last.err = NoError
    /\ handle.state = "ptr"
    /\ ~handle.session /\ ~handle.s3Client /\ ~handle.uploader

\* C7 as stated: the handle's references are set at construction and never
\* change, so no operation on a constructed handle, in any interleaving with
\* Close, observes a changed or dropped SDK reference.
C7_HandleReadOnly ==
    /\ last.panic => handle.state # "ptr"
    /\ dl.pc = "probed" => handle = NewHandle

\* C8 as stated: an error returned for an invalid configuration, bucket or
\* key, or a missing file, is the package sentinel itself, so err == ErrX
\* selects it.
C8_SentinelItself ==
    \A e \in Sentinels : ErrorsIs(last.err, e) => last.err = e

C10_ProbeFirst ==
    (last.op = "DownloadFile" /\ last.bucket # "" /\ last.key # <<>>) =>
      /\ last.reqs \in {<<>>, <<"HeadObject">>, <<"HeadObject", "GetObject">>}
      /\ last.reqs = <<>> => last.panic
      /\ Len(last.reqs) = 2 => last.probe = "ok"
      /\ last.probe = "NotFound" =>
           last.err = ErrFileNotFound /\ last.reqs = <<"HeadObject">>
      /\ last.probe = "NoSuchBucket" =>
           last.err = ErrInvalidBucket /\ last.reqs = <<"HeadObject">>
      /\ last.probe \in Failures =>
           /\ last.err.prefix # "" /\ last.err.cause = last.probe
           /\ last.reqs = <<"HeadObject">>
      /\ last.probe # "ok" => last.zero

C10_Witness ==
    /\ last.op = "DownloadFile"
    /\ last.probe = "NotFound"
    /\ last.err = ErrFileNotFound
    /\ last.reqs = <<"HeadObject">>

\* C11 as stated: DownloadFile returns ErrFileNotFound when the service
\* reports the object absent and ErrInvalidBucket when it reports the bucket
\* absent, whether the probe or the transfer reports it.
C11_SameErrorAtEitherStep ==
    (last.op = "DownloadFile" /\ ~last.panic) =>
      /\ last.sdk \in {"NotFound", "NoSuchKey"} => last.err = ErrFileNotFound
      /\ last.sdk = "NoSuchBucket" => last.err = ErrInvalidBucket

\* C12: whenever an SDK request of ListFiles, UploadFile, DownloadFile,
\* DeleteFile or GetFileInfo fails, the call returns a non-nil error and the
\* zero result, and for every code but no-such-bucket and not-found the error
\* wraps the SDK error as its cause.
C12_NoFailureSwallowed ==
    (last.op \in BucketOps /\ last.sdk \notin {"none", "ok"}) =>
      /\ ~last.panic
      /\ last.err # NoError
      /\ last.zero
      /\ last.body = <<>> /\ last.files = <<>>
      /\ last.info = NoInfo /\ last.location = NoLocation
      /\ last.sdk \notin {"NoSuchBucket", "NotFound"} =>
           last.err.prefix # "" /\ last.err.cause = last.sdk

\* a ListFiles whose second page request fails, after a first page was read
C12_Witness ==
    /\ last.op = "ListFiles"
    /\ last.sdk = "Plain"
    /\ Len(last.reqs) = 2
    /\ last.err.cause = "Plain"
    /\ last.files = <<>>

Populated(opts, f) ==
    /\ ~opts.isNil
    /\ IF f = "Metadata" THEN opts.Metadata = "one" ELSE opts[f] # ""

\* C14 as stated: the upload request UploadFile builds carries an attribute
\* if and only if the corresponding option is populated with a non-empty
\* value (a nil or zero-entry Metadata map is not).
C14_OnlyPopulatedOptions ==
    (last.op = "UploadFile" /\ last.reqs = <<"Upload">>) =>
      \A f \in DOMAIN NoInput :
        (last.input[f] # "unset") <=> Populated(last.opts, f)
====
